---- MODULE Spec2Model ----
(***************************************************************************)
(* A model of kv3lib-py: the KV3 value model and serializer of kv3.py and  *)
(* the PEG grammar and tree builder of kv3reader.py.                       *)
(*                                                                         *)
(* Text is a sequence of one-character strings.  A Python value is a       *)
(* record tagged by its runtime type in field t.                           *)
(***************************************************************************)
EXTENDS Integers, Sequences, FiniteSets

VARIABLES file, acc, combined, text, origin, parsed, printed, pc

vars == <<file, acc, combined, text, origin, parsed, printed, pc>>

(***************************************************************************)
(* Bounds of the model.                                                    *)
(***************************************************************************)
\* longest list the host program builds
MaxLen == 2
\* most flag members the host program combines with | before using them
MaxFlags == 2

(***************************************************************************)
(* Characters.                                                             *)
(***************************************************************************)
DigitChars == <<"0", "1", "2", "3", "4", "5", "6", "7", "8", "9">>

IsDigit(c) == c \in {"0", "1", "2", "3", "4", "5", "6", "7", "8", "9"}

IsLowerHex(c) == IsDigit(c) \/ c \in {"a", "b", "c", "d", "e", "f"}

IsHex(c) == IsLowerHex(c) \/ c \in {"A", "B", "C", "D", "E", "F"}

IsLetter(c) ==
    c \in {"a", "b", "c", "d", "e", "f", "g", "h", "i", "j", "k", "l", "m",
           "n", "o", "p", "q", "r", "s", "t", "u", "v", "w", "x", "y", "z",
           "A", "B", "C", "D", "E", "F", "G", "H", "I", "J", "K", "L", "M",
           "N", "O", "P", "Q", "R", "S", "T", "U", "V", "W", "X", "Y", "Z"}

IsSpace(c) == c \in {" ", "\t", "\n", "\r", "\f"}

\* str.lower() on one character (only hexadecimal letters occur in GUIDs)
Lower(c) ==
    CASE c = "A" -> "a" [] c = "B" -> "b" [] c = "C" -> "c"
      [] c = "D" -> "d" [] c = "E" -> "e" [] c = "F" -> "f"
      [] OTHER -> c

RECURSIVE Tabs(_)
Tabs(n) == IF n <= 0 THEN <<>> ELSE <<"\t">> \o Tabs(n - 1)

RECURSIVE Count(_, _)
\* s.count(c)
Count(s, c) ==
    IF s = <<>> THEN 0
    ELSE (IF Head(s) = c THEN 1 ELSE 0) + Count(Tail(s), c)

StartsWith(s, pre) == Len(s) >= Len(pre) /\ SubSeq(s, 1, Len(pre)) = pre

EndsWith(s, suf) ==
    Len(s) >= Len(suf) /\ SubSeq(s, Len(s) - Len(suf) + 1, Len(s)) = suf

(***************************************************************************)
(* The value model (kv3.py).                                               *)
(***************************************************************************)
None == [t |-> "None"]

Bool(b) == [t |-> "bool", b |-> b]

IntVal(n) == [t |-> "int", n |-> n]

Str(s) == [t |-> "str", s |-> s]

str_multiline(s) == [t |-> "str_multiline", s |-> s]

List(xs) == [t |-> "list", xs |-> xs]

\* a dict: its items in insertion order, the keys distinct
Dict(items) == [t |-> "dict", items |-> items]

\* a (key, value) tuple
Item(k, v) == [t |-> "tuple", k |-> k, v |-> v]

\* the members of enum flag, in declaration order; member i has value 2^(i-1)
FlagNames ==
    << <<"r", "e", "s", "o", "u", "r", "c", "e">>,
       <<"r", "e", "s", "o", "u", "r", "c", "e", "n", "a", "m", "e">>,
       <<"p", "a", "n", "o", "r", "a", "m", "a">>,
       <<"s", "o", "u", "n", "d", "e", "v", "e", "n", "t">>,
       <<"s", "u", "b", "c", "l", "a", "s", "s">> >>

RECURSIVE Pow2(_)
Pow2(n) == IF n = 0 THEN 1 ELSE 2 * Pow2(n - 1)

\* enum.auto() in a Flag: the next power of two
FlagValue(i) == Pow2(i - 1)

HasBit(value, i) == (value \div FlagValue(i)) % 2 = 1

RECURSIVE BitOr(_, _)
\* int.__or__ on non-negative integers
BitOr(a, b) ==
    IF a = 0 THEN b
    ELSE IF b = 0 THEN a
    ELSE (IF a % 2 = 1 \/ b % 2 = 1 THEN 1 ELSE 0)
         + 2 * BitOr(a \div 2, b \div 2)

\* flag.__or__
flag_or(a, b) == BitOr(a, b)

flagged_value(value, flags) == [t |-> "flagged_value", value |-> value, flags |-> flags]

\* KV3Header(): the dataclass defaults
DefaultEncodingVer ==
    <<"e", "2", "1", "c", "7", "f", "3", "c", "-", "8", "a", "3", "3", "-",
      "4", "1", "c", "5", "-", "9", "9", "7", "7", "-", "a", "7", "6", "d",
      "3", "a", "3", "2", "a", "a", "0", "d">>

DefaultFormatVer ==
    <<"7", "4", "1", "2", "1", "6", "7", "c", "-", "0", "6", "e", "9", "-",
      "4", "6", "9", "8", "-", "a", "f", "f", "2", "-", "e", "6", "3", "e",
      "b", "5", "9", "0", "3", "7", "e", "7">>

KV3Header(encoding, encoding_ver, format, format_ver) ==
    [encoding |-> encoding, encoding_ver |-> encoding_ver,
     format |-> format, format_ver |-> format_ver]

DefaultHeader ==
    KV3Header(<<"t", "e", "x", "t">>, DefaultEncodingVer,
              <<"g", "e", "n", "e", "r", "i", "c">>, DefaultFormatVer)

\* KV3File.__init__: the dict of the given items, and always the default header
KV3File(items) == [t |-> "KV3File", header |-> DefaultHeader, items |-> items]

RECURSIVE IndexOfKey(_, _)
\* the position of key k in items, 0 when absent
IndexOfKey(items, k) ==
    IF items = <<>> THEN 0
    ELSE IF items[Len(items)].k = k THEN Len(items)
    ELSE IndexOfKey(SubSeq(items, 1, Len(items) - 1), k)

\* dict.__setitem__: a known key keeps its place and takes the new value
DictSet(items, k, v) ==
    LET i == IndexOfKey(items, k)
    IN IF i = 0 THEN Append(items, Item(k, v))
       ELSE [items EXCEPT ![i] = Item(k, v)]

(***************************************************************************)
(* The serializer (kv3.py, KV3File.__str__).                               *)
(***************************************************************************)
RECURSIVE NatToText(_)
NatToText(n) ==
    IF n < 10 THEN <<DigitChars[n + 1]>>
    ELSE NatToText(n \div 10) \o <<DigitChars[(n % 10) + 1]>>

\* str(int)
IntToText(n) == IF n < 0 THEN <<"-">> \o NatToText(0 - n) ELSE NatToText(n)

RECURSIVE JoinFrom(_, _, _)
\* sep.join(parts[i:])
JoinFrom(parts, i, sep) ==
    IF i > Len(parts) THEN <<>>
    ELSE IF i = Len(parts) THEN parts[i]
    ELSE parts[i] \o sep \o JoinFrom(parts, i + 1, sep)

Join(parts, sep) == JoinFrom(parts, 1, sep)

RECURSIVE MemberNamesFrom(_, _)
\* the names of the members set in value, from member i on, in value order
MemberNamesFrom(value, i) ==
    IF i > Len(FlagNames) THEN <<>>
    ELSE (IF HasBit(value, i) THEN <<FlagNames[i]>> ELSE <<>>)
         \o MemberNamesFrom(value, i + 1)

\* str(flags).  The class is decorated with enum.global_enum, which sets
\* cls.__str__ = enum.global_str on every class that is not a ReprEnum, after
\* the class body has run: the __str__ of the class body is replaced, and
\* str() of a flag is its _name_, for a combination the member names joined
\* by "|".
flag_str(flags) == Join(MemberNamesFrom(flags, 1), <<"|">>)

\* KV3Header.__str__
KV3Header_str(h) ==
    <<"<", "!", "-", "-", " ", "k", "v", "3", " ">>
    \o <<"e", "n", "c", "o", "d", "i", "n", "g", ":">> \o h.encoding
    \o <<":", "v", "e", "r", "s", "i", "o", "n", "{">> \o h.encoding_ver
    \o <<"}", " ">>
    \o <<"f", "o", "r", "m", "a", "t", ":">> \o h.format
    \o <<":", "v", "e", "r", "s", "i", "o", "n", "{">> \o h.format_ver
    \o <<"}", " ", "-", "-", ">">>

\* str() of a Format object
Format_str(f) ==
    <<"F", "o", "r", "m", "a", "t", "(", "n", "a", "m", "e", "=", "'">>
    \o f.name
    \o <<"'", ",", " ", "v", "e", "r", "s", "i", "o", "n", "=", "U", "U",
         "I", "D", "(", "'">>
    \o f.version \o <<"'", ")", ")">>

RECURSIVE Pow10(_)
Pow10(n) == IF n = 0 THEN 1 ELSE 10 * Pow10(n - 1)

RECURSIVE PadDigits(_, _)
\* the n digits of frac, with its leading zeros
PadDigits(frac, n) ==
    IF n <= 1 THEN <<DigitChars[(frac % 10) + 1]>>
    ELSE PadDigits(frac \div 10, n - 1) \o <<DigitChars[(frac % 10) + 1]>>

RECURSIVE FracDigits(_, _)
\* the n digits of the fraction frac / 10^n, without the trailing zeros but
\* with at least one digit
FracDigits(frac, n) ==
    IF n > 1 /\ frac % 10 = 0 THEN FracDigits(frac \div 10, n - 1)
    ELSE PadDigits(frac, n)

\* str(round(obj, 6)) of the float (-1)^neg * num / 10^scale.  The rounding
\* is decimal, half to even: Python rounds the binary double, which differs
\* only on a decimal tie at the seventh place.  Exponent notation does not
\* occur for the floats of the model.
FloatToText(f) ==
    LET cut == IF f.scale > 6 THEN Pow10(f.scale - 6) ELSE 1
        low == f.num \div cut
        rest == f.num % cut
        up == 2 * rest > cut \/ (2 * rest = cut /\ low % 2 = 1)
        m == IF up THEN low + 1 ELSE low
        sc == IF f.scale > 6 THEN 6 ELSE f.scale
    IN (IF f.neg THEN <<"-">> ELSE <<>>)
       \o NatToText(m \div Pow10(sc)) \o <<".">>
       \o FracDigits(m % Pow10(sc), sc)

\* HasDictItem looking at the first item only
HasDictItem_first(items) ==
    items # <<>> /\ items[1].t \in {"dict", "KV3File"}

\* any(isinstance(item, dict) for item in obj)
HasDictItem(items) == \E i \in DOMAIN items : items[i].t \in {"dict", "KV3File"}

RECURSIVE obj_serialize(_, _, _)
obj_serialize(obj, indent, dictKey) ==
    LET preind == Tabs(indent - 1)
        ind == Tabs(indent)
    IN CASE obj.t = "flagged_value" ->
              IF obj.flags # 0
              THEN flag_str(obj.flags) \o <<":">> \o obj_serialize(obj.value, 1, FALSE)
              ELSE obj_serialize(obj.value, 1, FALSE)
         [] obj.t = "None" -> <<"n", "u", "l", "l">>
         [] obj.t = "bool" ->
              IF obj.b THEN <<"t", "r", "u", "e">> ELSE <<"f", "a", "l", "s", "e">>
         \* case str() comes first and str_multiline is a str: the case
         \* str_multiline() after it never matches
         [] obj.t \in {"str", "str_multiline"} -> <<"\"">> \o obj.s \o <<"\"">>
         [] obj.t = "list" ->
              IF HasDictItem(obj.xs)
              THEN <<"\n">> \o preind \o <<"[", "\n">>
                   \o Join([i \in DOMAIN obj.xs |->
                              obj_serialize(obj.xs[i], indent + 1, FALSE)
                              \o <<",", "\n">>], <<>>)
                   \o preind \o <<"]", "\n">>
              ELSE <<"[">>
                   \o Join([i \in DOMAIN obj.xs |->
                              obj_serialize(obj.xs[i], indent + 1, FALSE)],
                           <<",", " ">>)
                   \o <<"]">>
         [] obj.t \in {"dict", "KV3File"} ->
              (IF dictKey THEN <<"\n">> ELSE <<>>)
              \o preind \o <<"{", "\n">>
              \o Join([i \in DOMAIN obj.items |->
                         ind \o obj.items[i].k \o <<" ", "=", " ">>
                         \o obj_serialize(obj.items[i].v, indent + 1, TRUE)
                         \o <<"\n">>], <<>>)
              \o preind \o <<"}">>
         [] obj.t = "int" -> IntToText(obj.n)
         [] obj.t = "float" -> FloatToText(obj)
         [] OTHER -> Format_str(obj)

\* KV3File.__str__
KV3File_str(f) == KV3Header_str(f.header) \o <<"\n">> \o obj_serialize(f, 1, FALSE)

\* KV3File.ToString
KV3File_ToString(f) == KV3File_str(f)

(***************************************************************************)
(* The grammar (kv3reader.py, kv3grammar).  A matcher takes the text s and *)
(* the position p of the next character and gives the position after its   *)
(* match, or 0 when it does not match there.                                *)
(***************************************************************************)
\* the character at position p; "" past the end of the text
At(s, p) == IF p >= 1 /\ p <= Len(s) THEN s[p] ELSE ""

\* a literal of the grammar
MatchLit(s, p, lit) ==
    IF p + Len(lit) - 1 <= Len(s) /\ SubSeq(s, p, p + Len(lit) - 1) = lit
    THEN p + Len(lit)
    ELSE 0

\* the character classes of the grammar's regular expressions
InClass(class, c) ==
    CASE class = "digit" -> IsDigit(c)
      [] class = "identifier" -> IsLetter(c) \/ IsDigit(c) \/ c = "_"
      [] class = "space" -> IsSpace(c)
      [] class = "notquote" -> c # "" /\ c # "\""
      [] class = "notnewline" -> c # "" /\ c # "\n"

RECURSIVE ScanWhile(_, _, _)
\* the position after the longest run of characters of the class from p on
ScanWhile(s, p, class) ==
    IF InClass(class, At(s, p)) THEN ScanWhile(s, p + 1, class) ELSE p

\* ordered choice of two matchers' results
OrElse(a, b) == IF a # 0 THEN a ELSE b

\* a run of at least one character: the end e of the longest run from p
NonEmpty(p, e) == IF e > p THEN e ELSE 0

\* int = ~"-?[0-9]+"
MatchInt(s, p) ==
    LET q == IF At(s, p) = "-" THEN p + 1 ELSE p
        e == ScanWhile(s, q, "digit")
    IN IF e > q THEN e ELSE 0

\* float = ~"-?[0-9]+\.[0-9]+"
MatchFloat(s, p) ==
    LET e1 == MatchInt(s, p)
        e2 == ScanWhile(s, e1 + 1, "digit")
    IN IF e1 # 0 /\ At(s, e1) = "." /\ e2 > e1 + 1 THEN e2 ELSE 0

\* string = ~'"[^"]*"'
MatchString(s, p) ==
    LET e == ScanWhile(s, p + 1, "notquote")
    IN IF At(s, p) = "\"" /\ At(s, e) = "\"" THEN e + 1 ELSE 0

\* triple_quote = '"""'
MatchTripleQuote(s, p) == MatchLit(s, p, <<"\"", "\"", "\"">>)

\* multiline_string = triple_quote triple_quote
MatchMultilineString(s, p) ==
    LET e == MatchTripleQuote(s, p)
    IN IF e = 0 THEN 0 ELSE MatchTripleQuote(s, e)

\* identifier = ~"[a-zA-Z0-9_]+"i
MatchIdentifier(s, p) == NonEmpty(p, ScanWhile(s, p, "identifier"))

HexRun(s, p, n) == \A i \in 0..(n - 1) : IsHex(At(s, p + i))

\* guid = ~"{[a-f0-9]{8}-[a-f0-9]{4}-[a-f0-9]{4}-[a-f0-9]{4}-[a-f0-9]{12}}"i
MatchGuid(s, p) ==
    IF /\ At(s, p) = "{"
       /\ HexRun(s, p + 1, 8) /\ At(s, p + 9) = "-"
       /\ HexRun(s, p + 10, 4) /\ At(s, p + 14) = "-"
       /\ HexRun(s, p + 15, 4) /\ At(s, p + 19) = "-"
       /\ HexRun(s, p + 20, 4) /\ At(s, p + 24) = "-"
       /\ HexRun(s, p + 25, 12) /\ At(s, p + 37) = "}"
    THEN p + 38
    ELSE 0

\* binary_blob = '#[' ~'[0-9a-f]{2}' ']'
MatchBinaryBlob(s, p) ==
    IF /\ At(s, p) = "#" /\ At(s, p + 1) = "["
       /\ IsLowerHex(At(s, p + 2)) /\ IsLowerHex(At(s, p + 3))
       /\ At(s, p + 4) = "]"
    THEN p + 5
    ELSE 0

\* single_line_comment = ~r"//.*?\n"
MatchSingleLineComment(s, p) ==
    LET e == ScanWhile(s, p + 2, "notnewline")
    IN IF At(s, p) = "/" /\ At(s, p + 1) = "/" /\ At(s, e) = "\n"
       THEN e + 1
       ELSE 0

RECURSIVE CommentEnd(_, _)
\* the position after the first "*/" at or after p, 0 when there is none
CommentEnd(s, p) ==
    IF p + 1 > Len(s) THEN 0
    ELSE IF s[p] = "*" /\ s[p + 1] = "/" THEN p + 2
    ELSE CommentEnd(s, p + 1)

\* multi_line_comment = ~"/\*[^*]*\*+(?:[^/*][^*]*\*+)*/"
MatchMultiLineComment(s, p) ==
    IF At(s, p) = "/" /\ At(s, p + 1) = "*" THEN CommentEnd(s, p + 2) ELSE 0

\* ws = ~r"\s+" / single_line_comment / multi_line_comment
MatchWs(s, p) ==
    OrElse(NonEmpty(p, ScanWhile(s, p, "space")),
           OrElse(MatchSingleLineComment(s, p), MatchMultiLineComment(s, p)))

RECURSIVE WsStar(_, _)
\* ws* after one more attempt at ws gave e
WsMore(s, p, e) == IF e = 0 THEN p ELSE WsStar(s, e)

\* ws*: always matches
WsStar(s, p) == WsMore(s, p, MatchWs(s, p))

\* ws?: always matches
WsOpt(s, p) == OrElse(MatchWs(s, p), p)

(***************************************************************************)
(* The tree builder (kv3reader.py, KV3Builder).  A rule takes the text and *)
(* a position and gives [ok, p, v]: whether it matches, the position after *)
(* the match and the value its visit method returns for the matched node.  *)
(***************************************************************************)
R(ok, p, v) == [ok |-> ok, p |-> p, v |-> v]

\* what generic_visit returns for a node with children
list_of_nodes == [t |-> "list_of_nodes"]

NoMatch == R(FALSE, 0, list_of_nodes)

\* an exception raised by a visit method
Raise(exc) == [t |-> "raise", exc |-> exc]

IsRaise(v) == v.t = "raise"

\* KV3Builder.is_object, for the values a visit method gives
is_object(v) == v.t # "list_of_nodes"

DigitValue(c) == CHOOSE d \in 0..9 : DigitChars[d + 1] = c

RECURSIVE DigitsToNat(_)
DigitsToNat(ds) ==
    IF ds = <<>> THEN 0
    ELSE 10 * DigitsToNat(SubSeq(ds, 1, Len(ds) - 1)) + DigitValue(ds[Len(ds)])

\* int(text), for a text the rule int matched
TextToInt(txt) ==
    IF Head(txt) = "-" THEN 0 - DigitsToNat(Tail(txt)) ELSE DigitsToNat(txt)

\* visit_int
visit_int(txt) == IntVal(TextToInt(txt))

\* visit_float: float(text) as the decimal fraction (-1)^neg * num / 10^scale
visit_float(txt) ==
    LET dot == CHOOSE i \in 1..Len(txt) : txt[i] = "."
        first == IF Head(txt) = "-" THEN 2 ELSE 1
    IN [t |-> "float",
        neg |-> Head(txt) = "-",
        num |-> DigitsToNat(SubSeq(txt, first, dot - 1)
                            \o SubSeq(txt, dot + 1, Len(txt))),
        scale |-> Len(txt) - dot]

\* visit_string: node.text[1:-1]
visit_string(txt) == Str(SubSeq(txt, 2, Len(txt) - 1))

\* visit_multiline_string: node.text[3:-3]
visit_multiline_string(txt) == str_multiline(SubSeq(txt, 4, Len(txt) - 3))

\* visit_key: node.text, the whole text of the key node
visit_key(txt) == txt

\* uuid.UUID(text): braces and case are dropped; the value is kept as the
\* text str() gives for it, lower-case and hyphenated
UUID(txt) == [i \in 1..(Len(txt) - 2) |-> Lower(txt[i + 1])]

\* kv3.Encoding(name=, version=)
Encoding(name, version) == [t |-> "Encoding", name |-> name, version |-> version]

\* kv3.Format(name=, version=)
Format(name, version) == [t |-> "Format", name |-> name, version |-> version]

\* kv3.Flag[name]: the member of that name, KeyError when there is none
Flag_getitem(name) ==
    IF \E i \in DOMAIN FlagNames : FlagNames[i] = name
    THEN IntVal(FlagValue(CHOOSE i \in DOMAIN FlagNames : FlagNames[i] = name))
    ELSE Raise("KeyError")

RECURSIVE FlagsStar(_, _)
\* (identifier "+")* after one more attempt at identifier gave e
FlagsMore(s, p, e) == IF e # 0 /\ At(s, e) = "+" THEN FlagsStar(s, e + 1) ELSE p

\* (identifier "+")*: the position after the repetitions
FlagsStar(s, p) == FlagsMore(s, p, MatchIdentifier(s, p))

\* visit_flags: kv3.Flag[visited_children[1].text], the member named by the
\* last identifier, which the text from q to e is
visit_flags(s, q, e) ==
    IF e = 0 THEN NoMatch ELSE R(TRUE, e, Flag_getitem(SubSeq(s, q, e - 1)))

\* the last identifier of flags, at q
FlagsLast(s, q) == visit_flags(s, q, MatchIdentifier(s, q))

\* flags = (identifier "+")* identifier
ParseFlags(s, p) == FlagsLast(s, FlagsStar(s, p))

\* visit_object_flagged
visit_object_flagged(flags, value) ==
    IF IsRaise(flags) THEN flags
    ELSE IF IsRaise(value) THEN value
    ELSE flagged_value(value, flags.n)

\* visit_pairs: rv[kvp[0]] = kvp[1], on the dict d built so far
visit_pairs_step(d, kvp) ==
    IF IsRaise(d) THEN d
    ELSE IF IsRaise(kvp) THEN kvp
    ELSE Dict(DictSet(d.items, kvp.k, kvp.v))

\* visit_pair: the first two children that are objects, the key and the data
visit_pair(key, data) ==
    IF IsRaise(data) THEN data
    ELSE IF ~is_object(data) THEN Raise("StopIteration")
    ELSE Item(key, data)

\* visit_items: rv.append(next(it)), on the list xs built so far
visit_items_step(xs, data) ==
    IF IsRaise(xs) THEN xs
    ELSE IF IsRaise(data) THEN data
    ELSE IF ~is_object(data) THEN Raise("StopIteration")
    ELSE List(Append(xs.xs, data))

\* the visit method of a rule without sub-rules, on the text it matched
visit_terminal(rule, txt) ==
    CASE rule = "null" -> None
      [] rule = "true" -> Bool(TRUE)
      [] rule = "false" -> Bool(FALSE)
      [] rule = "float" -> visit_float(txt)
      [] rule = "int" -> visit_int(txt)
      [] rule = "multiline_string" -> visit_multiline_string(txt)
      [] rule = "string" -> visit_string(txt)
      [] rule = "binary_blob" -> list_of_nodes

\* a rule without sub-rules whose match from p ends at e
Terminal(s, p, e, rule) ==
    IF e = 0 THEN NoMatch ELSE R(TRUE, e, visit_terminal(rule, SubSeq(s, p, e - 1)))

\* ordered choice: the first alternative if it matches, else the second
Choice(r1, r2) == IF r1.ok THEN r1 ELSE r2

\* the closing bracket c after the content r of a dict or an array
Close(s, r, c) ==
    IF r.ok /\ At(s, r.p) = c THEN R(TRUE, r.p + 1, r.v) ELSE NoMatch

RECURSIVE ParseObject(_, _)
RECURSIVE ParseData(_, _)
RECURSIVE ParsePairs(_, _, _)
RECURSIVE ParseItems(_, _, _)

\* pair, once data gave d: the trailing ws*, and visit_pair
PairEnd(s, p1, k, d) ==
    IF ~d.ok THEN NoMatch
    ELSE R(TRUE, WsStar(s, d.p), visit_pair(visit_key(SubSeq(s, p1, k - 1)), d.v))

\* pair, from the "=" expected at p2 on
PairData(s, p1, k, p2) ==
    IF At(s, p2) # "=" THEN NoMatch
    ELSE PairEnd(s, p1, k, ParseData(s, WsStar(s, p2 + 1)))

\* pair, once the key from p1 ended at k
PairEq(s, p1, k) == IF k = 0 THEN NoMatch ELSE PairData(s, p1, k, WsOpt(s, k))

\* key = (identifier / string)
MatchKey(s, p) == OrElse(MatchIdentifier(s, p), MatchString(s, p))

\* pair = ws? key ws? "=" ws* data ws*
ParsePair(s, p) == PairEq(s, WsOpt(s, p), MatchKey(s, WsOpt(s, p)))

\* pair*, once one more attempt at pair gave r
PairsMore(s, p, d, r) ==
    IF r.ok THEN ParsePairs(s, r.p, visit_pairs_step(d, r.v)) ELSE R(TRUE, p, d)

\* pairs = pair*, and visit_pairs
ParsePairs(s, p, d) == PairsMore(s, p, d, ParsePair(s, p))

\* dict = "{" pairs "}", and visit_dict
ParseDict(s, p) ==
    IF At(s, p) # "{" THEN NoMatch
    ELSE Close(s, ParsePairs(s, p + 1, Dict(<<>>)), "}")

\* items, after data and ws*: with a "," the repetition goes on, without one
\* the data was the last, optional item
ItemsComma(s, xs, e) ==
    IF At(s, e) = "," THEN ParseItems(s, e + 1, xs) ELSE R(TRUE, e, xs)

\* items, once data at q gave d
ItemsStep(s, xs, q, d) ==
    IF ~d.ok THEN R(TRUE, q, xs)
    ELSE ItemsComma(s, visit_items_step(xs, d.v), WsStar(s, d.p))

\* items, after the leading ws*
ItemsData(s, xs, q) == ItemsStep(s, xs, q, ParseData(s, q))

\* items = (ws* data ws* ",")* ws* (data ws*)?, and visit_items
ParseItems(s, p, xs) == ItemsData(s, xs, WsStar(s, p))

\* array = "[" items "]", and visit_array
ParseArray(s, p) ==
    IF At(s, p) # "[" THEN NoMatch
    ELSE Close(s, ParseItems(s, p + 1, List(<<>>)), "]")

\* object = null / true / false / float / int / multiline_string / string
\*          / dict / array / binary_blob
ParseObject(s, p) ==
    Choice(Terminal(s, p, MatchLit(s, p, <<"n", "u", "l", "l">>), "null"),
    Choice(Terminal(s, p, MatchLit(s, p, <<"t", "r", "u", "e">>), "true"),
    Choice(Terminal(s, p, MatchLit(s, p, <<"f", "a", "l", "s", "e">>), "false"),
    Choice(Terminal(s, p, MatchFloat(s, p), "float"),
    Choice(Terminal(s, p, MatchInt(s, p), "int"),
    Choice(Terminal(s, p, MatchMultilineString(s, p), "multiline_string"),
    Choice(Terminal(s, p, MatchString(s, p), "string"),
    Choice(ParseDict(s, p),
    Choice(ParseArray(s, p),
           Terminal(s, p, MatchBinaryBlob(s, p), "binary_blob"))))))))))

\* object_flagged, once object gave o
FlaggedObject(f, o) ==
    IF o.ok THEN R(TRUE, o.p, visit_object_flagged(f.v, o.v)) ELSE NoMatch

\* object_flagged, once flags gave f
FlaggedColon(s, f) ==
    IF f.ok /\ At(s, f.p) = ":" THEN FlaggedObject(f, ParseObject(s, f.p + 1))
    ELSE NoMatch

\* object_flagged = (flags ":") object
ParseObjectFlagged(s, p) == FlaggedColon(s, ParseFlags(s, p))

\* data = (object / object_flagged)
ParseData(s, p) == Choice(ParseObject(s, p), ParseObjectFlagged(s, p))

\* encoding = "encoding:" identifier ":version" guid, and visit_encoding;
\* format = "format:" identifier ":version" guid, and visit_format
ParseVersioned(s, p, lit) ==
    LET p1 == MatchLit(s, p, lit)
        p2 == MatchIdentifier(s, p1)
        p3 == MatchLit(s, p2, <<":", "v", "e", "r", "s", "i", "o", "n">>)
        p4 == MatchGuid(s, p3)
    IN IF p1 = 0 \/ p2 = 0 \/ p3 = 0 \/ p4 = 0 THEN NoMatch
       ELSE R(TRUE, p4, [name |-> SubSeq(s, p1, p2 - 1),
                         version |-> UUID(SubSeq(s, p3, p4 - 1))])

\* header = "<!-- kv3 " encoding " " format " -->\n", and visit_header:
\* KV3Header(encoding=..., format=...), the version fields left at their defaults
ParseHeader(s, p) ==
    LET p1 == MatchLit(s, p, <<"<", "!", "-", "-", " ", "k", "v", "3", " ">>)
        e == ParseVersioned(s, p1, <<"e", "n", "c", "o", "d", "i", "n", "g", ":">>)
        p2 == MatchLit(s, e.p, <<" ">>)
        f == ParseVersioned(s, p2, <<"f", "o", "r", "m", "a", "t", ":">>)
        p3 == MatchLit(s, f.p, <<" ", "-", "-", ">", "\n">>)
    IN IF p1 = 0 \/ ~e.ok \/ p2 = 0 \/ ~f.ok \/ p3 = 0 THEN NoMatch
       ELSE R(TRUE, p3,
              KV3Header(Encoding(e.v.name, e.v.version), DefaultEncodingVer,
                        Format(f.v.name, f.v.version), DefaultFormatVer))

\* an exception that leaves KV3Builder().parse
Error(exc) == [t |-> "error", exc |-> exc]

\* KV3File(value = data, format = header.format): the keyword arguments are
\* the items of the dict
KV3File_kwargs(value, format) ==
    KV3File(<<Item(<<"v", "a", "l", "u", "e">>, value),
              Item(<<"f", "o", "r", "m", "a", "t">>, format)>>)

\* visit_kv3
visit_kv3(header, data) ==
    IF IsRaise(data) THEN Error("VisitationError")
    ELSE IF ~is_object(data) THEN Error("VisitationError")
    ELSE KV3File_kwargs(data, header.format)

\* kv3, once data gave d: the trailing ws* to the end of the text, and visit_kv3
ParseEnd(s, h, d) ==
    IF ~d.ok THEN Error("ParseError")
    ELSE IF WsStar(s, d.p) # Len(s) + 1 THEN Error("IncompleteParseError")
    ELSE visit_kv3(h.v, d.v)

\* kv3, once header gave h
ParseBody(s, h) ==
    IF ~h.ok THEN Error("ParseError")
    ELSE ParseEnd(s, h, ParseData(s, WsStar(s, h.p)))

\* KV3Builder().parse(text): kv3 = header ws* data ws*, matched to the end of
\* the text, then visited
KV3Builder_parse(s) == ParseBody(s, ParseHeader(s, 1))

(***************************************************************************)
(* The values and texts the model draws its inputs from.                   *)
(***************************************************************************)
Scalars ==
    {None, Bool(TRUE), Bool(FALSE),
     IntVal(0), IntVal(7), IntVal(-12), IntVal(128),
     Str(<<>>), Str(<<"h", "i">>), Str(<<"a", "s", "d", " ", "a", "s", "d">>),
     str_multiline(<<>>), str_multiline(<<"x", "\n", "y">>)}

\* the elements of a list of scalars
Elems == {None, IntVal(1), Str(<<"s">>), str_multiline(<<"x", "\n", "y">>)}

InnerDict == Dict(<<Item(<<"n">>, IntVal(5))>>)

\* the elements of a list of containers
DeepElems ==
    {IntVal(1), Dict(<<>>), InnerDict, List(<<IntVal(1)>>),
     List(<<Dict(<<>>)>>), flagged_value(InnerDict, FlagValue(1))}

\* the sequences over E of length at most MaxLen
ShortSeqs(E) == UNION {[1..n -> E] : n \in 0..MaxLen}

Dicts ==
    {Dict(<<>>), InnerDict,
     Dict(<<Item(<<"n">>, IntVal(5)), Item(<<"s">>, Str(<<"f", "o", "o">>))>>),
     Dict(<<Item(<<"l">>, List(<<IntVal(1), IntVal(2)>>))>>),
     Dict(<<Item(<<"l">>, List(<<InnerDict>>))>>),
     Dict(<<Item(<<"d">>, InnerDict)>>),
     Dict(<<Item(<<"d">>, Dict(<<>>))>>)}

Values ==
    Scalars \cup Dicts
    \cup {List(xs) : xs \in ShortSeqs(Elems)}
    \cup {List(xs) : xs \in ShortSeqs(DeepElems)}

\* the values the host program flags
FlagTargets == {Str(<<"p", "/", "a", ".", "v", "p", "c", "f">>), InnerDict}

Keys == {<<"a">>, <<"k", "e", "y", "_", "1">>}

AltEncodingVer ==
    <<"0", "1", "2", "3", "4", "5", "6", "7", "-", "8", "9", "a", "b", "-",
      "4", "c", "d", "e", "-", "8", "f", "0", "0", "-", "1", "2", "3", "4",
      "5", "6", "7", "8", "9", "a", "b", "c">>

AltFormatVer ==
    <<"f", "e", "d", "c", "b", "a", "9", "8", "-", "7", "6", "5", "4", "-",
      "4", "3", "2", "1", "-", "9", "0", "0", "0", "-", "a", "b", "c", "d",
      "e", "f", "0", "1", "2", "3", "4", "5">>

\* the headers a text is written with
Headers ==
    {DefaultHeader,
     KV3Header(<<"t", "e", "x", "t", "2">>, AltEncodingVer,
               <<"g", "e", "n", "e", "r", "i", "c", "2">>, AltFormatVer),
     KV3Header(<<"t", "e", "x", "t">>, DefaultEncodingVer,
               <<"v", "p", "c", "f", "_", "1">>, DefaultFormatVer)}

\* the contents of the multi-line string tokens a text is written with
MultilineContents == {<<>>, <<"x">>, <<"x", "\n", "y">>, <<"a", "\"", "b">>}

\* the value texts of a written pair
PairValueTexts == {<<"5">>, <<"\"", "s", "\"">>, <<"n", "u", "l", "l">>}

\* the sequences of flag members (by position in the enum) a text is written with
FlagSeqs == UNION {[1..n -> DOMAIN FlagNames] : n \in 1..MaxFlags}

\* the header line of a text: str(header) and the newline that ends the line
HeaderLine(h) == KV3Header_str(h) \o <<"\n">>

\* test_parses_kv3: the text after the header line
ParsesKv3Body ==
    <<"\n", " ", " ", " ", " ", " ", " ", " ", " ", " ", " ", " ", " ", "{",
      "\n", " ", " ", " ", " ", " ", " ", " ", " ", " ", " ", " ", " ", " ",
      " ", " ", " ", "b", "o", "o", "l", "V", "a", "l", "u", "e", " ", "=",
      " ", "f", "a", "l", "s", "e", "\n", " ", " ", " ", " ", " ", " ", " ",
      " ", " ", " ", " ", " ", " ", " ", " ", " ", "i", "n", "t", "V", "a",
      "l", "u", "e", " ", "=", " ", "1", "2", "8", "\n", " ", " ", " ", " ",
      " ", " ", " ", " ", " ", " ", " ", " ", " ", " ", " ", " ", "d", "o",
      "u", "b", "l", "e", "V", "a", "l", "u", "e", " ", "=", " ", "6", "4",
      ".", "0", "0", "0", "0", "0", "0", "\n", " ", " ", " ", " ", " ", " ",
      " ", " ", " ", " ", " ", " ", " ", " ", " ", " ", "s", "t", "r", "i",
      "n", "g", "V", "a", "l", "u", "e", " ", "=", " ", "\"", "h", "e", "l",
      "l", "o", " ", "w", "o", "r", "l", "d", "\"", "\n", " ", " ", " ", " ",
      " ", " ", " ", " ", " ", " ", " ", " ", " ", " ", " ", " ", "s", "t",
      "r", "i", "n", "g", "T", "h", "a", "t", "I", "s", "A", "R", "e", "s",
      "o", "u", "r", "c", "e", "R", "e", "f", "e", "r", "e", "n", "c", "e",
      " ", "=", " ", "r", "e", "s", "o", "u", "r", "c", "e", ":", "\"", "p",
      "a", "r", "t", "i", "c", "l", "e", "s", "/", "i", "t", "e", "m", "s",
      "3", "_", "f", "x", "/", "s", "t", "a", "r", "_", "e", "m", "b", "l",
      "e", "m", ".", "v", "p", "c", "f", "\"", "\n", " ", " ", " ", " ", " ",
      " ", " ", " ", " ", " ", " ", " ", " ", " ", " ", " ", "m", "u", "l",
      "t", "i", "L", "i", "n", "e", "S", "t", "r", "i", "n", "g", "V", "a",
      "l", "u", "e", " ", "=", " ", "\"", "\"", "\"", "\"", "\"", "\"", "\n", " ",
      " ", " ", " ", " ", " ", " ", " ", " ", " ", " ", " ", " ", " ", " ",
      " ", "a", "r", "r", "a", "y", "V", "a", "l", "u", "e", " ", "=", "\n",
      " ", " ", " ", " ", " ", " ", " ", " ", " ", " ", " ", " ", " ", " ",
      " ", " ", "[", "\n", " ", " ", " ", " ", " ", " ", " ", " ", " ", " ",
      " ", " ", " ", " ", " ", " ", " ", " ", " ", " ", "1", ",", "\n", " ",
      " ", " ", " ", " ", " ", " ", " ", " ", " ", " ", " ", " ", " ", " ",
      " ", " ", " ", " ", " ", "2", "\n", " ", " ", " ", " ", " ", " ", " ",
      " ", " ", " ", " ", " ", " ", " ", " ", " ", "]", "\n", " ", " ", " ",
      " ", " ", " ", " ", " ", " ", " ", " ", " ", " ", " ", " ", " ", "o",
      "b", "j", "e", "c", "t", "V", "a", "l", "u", "e", " ", "=", "\n", " ",
      " ", " ", " ", " ", " ", " ", " ", " ", " ", " ", " ", " ", " ", " ",
      " ", "{", "\n", " ", " ", " ", " ", " ", " ", " ", " ", " ", " ", " ",
      " ", " ", " ", " ", " ", " ", " ", " ", " ", "n", " ", "=", " ", "5",
      "\n", " ", " ", " ", " ", " ", " ", " ", " ", " ", " ", " ", " ", " ",
      " ", " ", " ", " ", " ", " ", " ", "s", " ", "=", " ", "\"", "f", "o",
      "o", "\"", "\n", " ", " ", " ", " ", " ", " ", " ", " ", " ", " ", " ",
      " ", " ", " ", " ", " ", "}", "\n", " ", " ", " ", " ", " ", " ", " ",
      " ", " ", " ", " ", " ", " ", " ", " ", " ", "/", "/", " ", "s", "i",
      "n", "g", "l", "e", " ", "l", "i", "n", "e", " ", "c", "o", "m", "m",
      "e", "n", "t", "\n", " ", " ", " ", " ", " ", " ", " ", " ", " ", " ",
      " ", " ", " ", " ", " ", " ", "/", "*", " ", "m", "u", "l", "t", "i",
      "\n", " ", " ", " ", " ", " ", " ", " ", " ", " ", " ", " ", " ", " ",
      " ", " ", " ", "l", "i", "n", "e", "\n", " ", " ", " ", " ", " ", " ",
      " ", " ", " ", " ", " ", " ", " ", " ", " ", " ", "c", "o", "m", "m",
      "e", "n", "t", " ", "*", "/", "\n", " ", " ", " ", " ", " ", " ", " ",
      " ", " ", " ", " ", " ", "}">>

\* test_prints_back_same_kv3: the text after the header line
PrintsBackBody ==
    <<"\n", "{", "\n", "\t", "b", "o", "o", "l", "V", "a", "l", "u", "e", " ",
      "=", " ", "f", "a", "l", "s", "e", "\n", "\t", "i", "n", "t", "V", "a",
      "l", "u", "e", " ", "=", " ", "1", "2", "8", "\n", "\t", "d", "o", "u",
      "b", "l", "e", "V", "a", "l", "u", "e", " ", "=", " ", "6", "4", ".",
      "0", "\n", "\t", "s", "t", "r", "i", "n", "g", "V", "a", "l", "u", "e",
      " ", "=", " ", "\"", "h", "e", "l", "l", "o", " ", "w", "o", "r", "l",
      "d", "\"", "\n", "\t", "s", "t", "r", "i", "n", "g", "T", "h", "a", "t",
      "I", "s", "A", "R", "e", "s", "o", "u", "r", "c", "e", "R", "e", "f",
      "e", "r", "e", "n", "c", "e", " ", "=", " ", "r", "e", "s", "o", "u",
      "r", "c", "e", ":", "\"", "p", "a", "r", "t", "i", "c", "l", "e", "s",
      "/", "i", "t", "e", "m", "s", "3", "_", "f", "x", "/", "s", "t", "a",
      "r", "_", "e", "m", "b", "l", "e", "m", ".", "v", "p", "c", "f", "\"",
      "\n", "\t", "m", "u", "l", "t", "i", "L", "i", "n", "e", "S", "t", "r",
      "i", "n", "g", "V", "a", "l", "u", "e", " ", "=", " ", "\"", "\"", "\"",
      "\"", "\"", "\"", "\n", "\t", "a", "r", "r", "a", "y", "V", "a", "l", "u",
      "e", " ", "=", " ", "[", "1", ",", " ", "2", "]", "\n", "\t", "o", "b",
      "j", "e", "c", "t", "V", "a", "l", "u", "e", " ", "=", " ", "\n", "\t",
      "{", "\n", "\t", "\t", "n", " ", "=", " ", "5", "\n", "\t", "\t", "s", " ",
      "=", " ", "\"", "f", "o", "o", "\"", "\n", "\t", "}", "\n", "}">>

(***************************************************************************)
(* The state machine: a host program builds a KV3File and prints it, or a  *)
(* text is written by hand; the text is parsed, and the parsed file is     *)
(* printed again.                                                          *)
(*   file      the KV3File the host program builds                         *)
(*   acc       the flag value the host program has combined with |         *)
(*   combined  the members combined into acc, in the order of combination  *)
(*   text      the text handed to the parser                               *)
(*   origin    where text came from                                        *)
(*   parsed    what KV3Builder().parse(text) returned or raised            *)
(*   printed   str(parsed)                                                 *)
(*   pc        the step reached                                            *)
(***************************************************************************)
NotParsed == [t |-> "none"]

\* KV3File()
Init ==
    /\ file = KV3File(<<>>)
    /\ acc = 0
    /\ combined = <<>>
    /\ text = <<>>
    /\ origin = [kind |-> "none"]
    /\ parsed = NotParsed
    /\ printed = <<>>
    /\ pc = "build"

\* acc | member
CombineFlag(i) ==
    /\ pc = "build"
    /\ Len(combined) < MaxFlags
    /\ acc' = flag_or(acc, FlagValue(i))
    /\ combined' = Append(combined, i)
    /\ UNCHANGED <<file, text, origin, parsed, printed, pc>>

\* file[k] = v
SetItem(k, v) ==
    /\ pc = "build"
    /\ file' = [file EXCEPT !.items = DictSet(@, k, v)]
    /\ UNCHANGED <<acc, combined, text, origin, parsed, printed, pc>>

\* file[k] = flagged_value(v, acc)
SetFlagged(k, v) ==
    /\ pc = "build"
    /\ file' = [file EXCEPT !.items = DictSet(@, k, flagged_value(v, acc))]
    /\ UNCHANGED <<acc, combined, text, origin, parsed, printed, pc>>

\* text = file.ToString()
Serialize ==
    /\ pc = "build"
    /\ text' = KV3File_ToString(file)
    /\ origin' = [kind |-> "serialized"]
    /\ pc' = "text"
    /\ UNCHANGED <<file, acc, combined, parsed, printed>>

Blank == pc = "build" /\ file.items = <<>> /\ combined = <<>>

\* a text whose whole body is the scalar v, as test_parses_null_kv3 writes it
ScalarText(h, v) == HeaderLine(h) \o obj_serialize(v, 1, FALSE)

WriteScalar(h, v) ==
    /\ Blank
    /\ text' = ScalarText(h, v)
    /\ origin' = [kind |-> "scalar", header |-> h, value |-> v]
    /\ pc' = "text"
    /\ UNCHANGED <<file, acc, combined, parsed, printed>>

\* a multi-line string token
MultilineToken(c) == <<"\"", "\"", "\"">> \o c \o <<"\"", "\"", "\"">>

\* a text whose body is a multi-line string token, or an object with the
\* token as the value of its one pair
MultilineText(h, c, nested) ==
    HeaderLine(h)
    \o (IF nested
        THEN <<"{", "\n", "\t", "m", " ", "=", " ">> \o MultilineToken(c)
             \o <<"\n", "}">>
        ELSE MultilineToken(c))

WriteMultiline(h, c, nested) ==
    /\ Blank
    /\ text' = MultilineText(h, c, nested)
    /\ origin' = [kind |-> "multiline", header |-> h, content |-> c,
                  nested |-> nested]
    /\ pc' = "text"
    /\ UNCHANGED <<file, acc, combined, parsed, printed>>

\* a text whose body is an object of one pair, the key bare or quoted
PairText(h, k, quoted, vt) ==
    HeaderLine(h) \o <<"{", "\n", "\t">>
    \o (IF quoted THEN <<"\"">> \o k \o <<"\"">> ELSE k)
    \o <<" ", "=", " ">> \o vt \o <<"\n", "}">>

WritePair(h, k, quoted, vt) ==
    /\ Blank
    /\ text' = PairText(h, k, quoted, vt)
    /\ origin' = [kind |-> "pair", header |-> h, key |-> k, quoted |-> quoted,
                  valtext |-> vt]
    /\ pc' = "text"
    /\ UNCHANGED <<file, acc, combined, parsed, printed>>

\* a text whose body is the string "p" flagged with the members ns, in order
FlaggedText(h, ns) ==
    HeaderLine(h) \o Join([i \in DOMAIN ns |-> FlagNames[ns[i]]], <<"+">>)
    \o <<":", "\"", "p", "\"">>

WriteFlagged(h, ns) ==
    /\ Blank
    /\ text' = FlaggedText(h, ns)
    /\ origin' = [kind |-> "flags", header |-> h, names |-> ns]
    /\ pc' = "text"
    /\ UNCHANGED <<file, acc, combined, parsed, printed>>

\* the text of test_parses_kv3 or of test_prints_back_same_kv3
WriteTest(name) ==
    /\ Blank
    /\ text' = HeaderLine(DefaultHeader)
               \o (IF name = "test_parses_kv3" THEN ParsesKv3Body
                   ELSE PrintsBackBody)
    /\ origin' = [kind |-> name, header |-> DefaultHeader]
    /\ pc' = "text"
    /\ UNCHANGED <<file, acc, combined, parsed, printed>>

\* parsed = KV3Builder().parse(text)
Parse ==
    /\ pc = "text"
    /\ parsed' = KV3Builder_parse(text)
    /\ pc' = "parsed"
    /\ UNCHANGED <<file, acc, combined, text, origin, printed>>

\* printed = str(parsed)
PrintBack ==
    /\ pc = "parsed"
    /\ parsed.t = "KV3File"
    /\ printed' = KV3File_str(parsed)
    /\ pc' = "printed"
    /\ UNCHANGED <<file, acc, combined, text, origin, parsed>>

\* the inputs of a run: the host program combines its flags first and flags
\* one value with them, or sets a first value of any shape and then scalars
FlagChoices == IF file.items = <<>> THEN DOMAIN FlagNames ELSE {}

ItemValues ==
    IF combined # <<>> THEN {} ELSE IF file.items = <<>> THEN Values ELSE Elems

FlaggedValues == IF file.items = <<>> THEN FlagTargets ELSE {}

Next ==
    \/ \E i \in FlagChoices : CombineFlag(i)
    \/ \E k \in Keys, v \in ItemValues : SetItem(k, v)
    \/ \E k \in Keys, v \in FlaggedValues : SetFlagged(k, v)
    \/ Serialize
    \/ \E h \in Headers, v \in Scalars : WriteScalar(h, v)
    \/ \E h \in Headers, c \in MultilineContents, nested \in BOOLEAN :
          WriteMultiline(h, c, nested)
    \/ \E h \in Headers, k \in Keys, quoted \in BOOLEAN, vt \in PairValueTexts :
          WritePair(h, k, quoted, vt)
    \/ \E h \in Headers, ns \in FlagSeqs : WriteFlagged(h, ns)
    \/ \E name \in {"test_parses_kv3", "test_prints_back_same_kv3"} : WriteTest(name)
    \/ Parse
    \/ PrintBack

Spec == Init /\ [][Next]_vars

(***************************************************************************)
(* What the properties speak of.                                           *)
(***************************************************************************)
\* getattr(f, name) on a KV3File: the instance has the attribute header, set
\* by __init__; its items are dict items, not attributes
KV3File_getattr(f, name) ==
    IF name = "header" THEN f.header ELSE Raise("AttributeError")

RECURSIVE ListCalls(_, _)
\* the calls obj_serialize(obj, indent) makes on lists while it prints obj
ListCalls(obj, indent) ==
    CASE obj.t = "flagged_value" -> ListCalls(obj.value, 1)
      [] obj.t = "list" ->
           {[obj |-> obj, indent |-> indent]}
           \cup UNION {ListCalls(obj.xs[i], indent + 1) : i \in DOMAIN obj.xs}
      [] obj.t \in {"dict", "KV3File"} ->
           UNION {ListCalls(obj.items[i].v, indent + 1) : i \in DOMAIN obj.items}
      [] OTHER -> {}

RECURSIVE SumOver(_, _)
\* the sum of f[i] for i in 1..n
SumOver(f, n) == IF n = 0 THEN 0 ELSE f[n] + SumOver(f, n - 1)

\* whether part occurs in whole
IsInfix(part, whole) ==
    \E i \in 1..(Len(whole) - Len(part) + 1) :
        SubSeq(whole, i, i + Len(part) - 1) = part

\* the members of ns
Members(ns) == {ns[i] : i \in DOMAIN ns}

RECURSIVE DeclarationOrder(_, _)
\* the names of the members in set ms, from member i on, in declaration order
DeclarationOrder(ms, i) ==
    IF i > Len(FlagNames) THEN <<>>
    ELSE (IF i \in ms THEN <<FlagNames[i]>> ELSE <<>>) \o DeclarationOrder(ms, i + 1)

RECURSIVE ValueOfMembers(_, _)
\* the value of the combination of the members in set ms, from member i on
ValueOfMembers(ms, i) ==
    IF i > Len(FlagNames) THEN 0
    ELSE (IF i \in ms THEN FlagValue(i) ELSE 0) + ValueOfMembers(ms, i + 1)

RECURSIVE InCanonicalDomain(_)
\* null, booleans, integers, single-line strings without quote characters,
\* flagged strings, inline arrays and non-empty objects of these
InCanonicalDomain(v) ==
    CASE v.t \in {"None", "bool", "int"} -> TRUE
      [] v.t = "str" -> \A i \in DOMAIN v.s : v.s[i] \notin {"\"", "\n"}
      [] v.t = "flagged_value" ->
           v.flags # 0 /\ v.value.t = "str" /\ InCanonicalDomain(v.value)
      [] v.t = "list" ->
           \A i \in DOMAIN v.xs : v.xs[i].t # "dict" /\ InCanonicalDomain(v.xs[i])
      [] v.t \in {"dict", "KV3File"} ->
           v.items # <<>> /\ \A i \in DOMAIN v.items : InCanonicalDomain(v.items[i].v)
      [] OTHER -> FALSE

\* the text came from file.ToString()
Serialized == origin.kind = "serialized"

\* the text was written with a header h and is being or has been parsed
Written == origin.kind \in {"scalar", "multiline", "pair", "flags"}

\* the data of a parsed file: the keyword argument value of visit_kv3
DataOf(f) == f.items[1].v

\* the one pair of a file with one pair, as the serializer is to print it
OnePairText(k, valueText) ==
    HeaderLine(DefaultHeader) \o <<"{", "\n", "\t">> \o k \o <<" ", "=", " ">>
    \o valueText \o <<"\n", "}">>

(***************************************************************************)
(* The properties.                                                         *)
(***************************************************************************)

\* C1: for canonical text t, the text the serializer emits for a document
\* whose root is a non-empty object of null, booleans, integers, single-line
\* strings without quotes, flagged strings, inline arrays and nested
\* non-empty objects, parsing t succeeds and serializing the parsed document
\* gives t again, character for character.
C1_PrintsBackSame ==
    (Serialized /\ InCanonicalDomain(file)) =>
        /\ (pc = "parsed" => parsed.t = "KV3File")
        /\ (pc = "printed" => printed = text)

\* C2: a document whose whole body is one scalar v round-trips: parsing the
\* default header followed by the text of v gives a document whose value is
\* v (for null, a document whose value is None).
C2_ScalarRoundTrip ==
    (pc = "parsed" /\ origin.kind = "scalar" /\ origin.header = DefaultHeader) =>
        /\ parsed.t = "KV3File"
        /\ KV3File_getattr(parsed, "value") = origin.value

\* C3: the empty document serializes to the default header line followed by
\* "{", newline, "}", parsing exactly that text succeeds and yields an empty
\* object; the same holds for an empty object that is the value of a pair.
C3_EmptyDocument ==
    Serialized =>
        /\ (file.items = <<>> /\ pc = "text") =>
               text = HeaderLine(DefaultHeader) \o <<"{", "\n", "}">>
        /\ (file.items = <<>> /\ pc = "parsed") =>
               (parsed.t = "KV3File" /\ DataOf(parsed) = Dict(<<>>))
        /\ (Len(file.items) = 1 /\ pc = "parsed" /\ file.items[1].v.t = "dict") =>
               (file.items[1].v.items = <<>> =>
                   (/\ parsed.t = "KV3File"
                    /\ DataOf(parsed) = Dict(<<Item(file.items[1].k, Dict(<<>>))>>)))

\* the text of the list of call c, the texts of its elements, and the
\* newlines in the texts of its elements
ListText(c) == obj_serialize(c.obj, c.indent, FALSE)

ElemText(c, i) == obj_serialize(c.obj.xs[i], c.indent + 1, FALSE)

ElemNewlines(c) ==
    SumOver([i \in DOMAIN c.obj.xs |-> Count(ElemText(c, i), "\n")], Len(c.obj.xs))

ElemLengths(c) ==
    SumOver([i \in DOMAIN c.obj.xs |-> Len(ElemText(c, i))], Len(c.obj.xs))

HasObjectElement(c) == \E i \in DOMAIN c.obj.xs : c.obj.xs[i].t = "dict"

\* a list printed as a block: a newline, "[" on a line of its own at the
\* outer indentation, every element followed by "," and a newline, and "]"
\* at the outer indentation followed by a newline
PrintedAsBlock(c) ==
    /\ StartsWith(ListText(c), <<"\n">> \o Tabs(c.indent - 1) \o <<"[", "\n">>)
    /\ EndsWith(ListText(c), <<"\n">> \o Tabs(c.indent - 1) \o <<"]", "\n">>)
    /\ Count(ListText(c), "\n") = ElemNewlines(c) + Len(c.obj.xs) + 3

\* a list printed inline: "[", the texts of the elements with ", " between
\* them, "]", and no character more
PrintedInline(c) ==
    /\ Head(ListText(c)) = "[" /\ ListText(c)[Len(ListText(c))] = "]"
    /\ Len(ListText(c)) =
           2 + ElemLengths(c)
           + 2 * (IF c.obj.xs = <<>> THEN 0 ELSE Len(c.obj.xs) - 1)
    /\ \A i \in DOMAIN c.obj.xs : IsInfix(ElemText(c, i), ListText(c))
    /\ Count(ListText(c), ",") >= Len(c.obj.xs) - 1

\* C4 as stated: every array at any depth with no object element is printed
\* inline as [e1, e2, ...] and its text contains no newline; an array with an
\* object element is printed as a block.
C4_InlineHasNoNewline ==
    (Serialized /\ pc = "text") =>
        \A c \in ListCalls(file, 1) :
            IF HasObjectElement(c) THEN PrintedAsBlock(c)
            ELSE PrintedInline(c) /\ Count(ListText(c), "\n") = 0

\* C4 as amended: every array at any depth with no object element is printed
\* inline as [e1, e2, ...] and adds no newline of its own, its text holding
\* exactly the newlines of its elements' texts; an array with an object
\* element is printed as a block; the text of the array is part of the
\* document's text.
C4_ArrayLayout ==
    (Serialized /\ pc = "text") =>
        \A c \in ListCalls(file, 1) :
            /\ IsInfix(ListText(c), text)
            /\ IF HasObjectElement(c) THEN PrintedAsBlock(c)
               ELSE PrintedInline(c) /\ Count(ListText(c), "\n") = ElemNewlines(c)

\* a printed document with an inline array of two elements whose text holds
\* a newline, and with a block array
C4_Witness ==
    /\ Serialized /\ pc = "text"
    /\ \E c \in ListCalls(file, 1) :
           ~HasObjectElement(c) /\ Len(c.obj.xs) = 2 /\ Count(ListText(c), "\n") > 0
    /\ \E c \in ListCalls(file, 1) : HasObjectElement(c)

\* C5: parsing the text of a header h followed by a body yields a document
\* whose header is h, and serializing the parsed document emits the header
\* line of h, not of the defaults.
C5_HeaderRoundTrip ==
    (Written /\ parsed.t = "KV3File") =>
        /\ KV3File_getattr(parsed, "header") = origin.header
        /\ (pc = "printed" => StartsWith(printed, HeaderLine(origin.header)))

\* C6: a value flagged with a non-empty set of flags is printed as the member
\* names joined by "+" in the declaration order of the enum, whatever the
\* order the flags were combined in, then ":" and the inner value.
C6_FlagDeclarationOrder ==
    (Serialized /\ pc = "text" /\ Len(file.items) = 1) =>
        ((file.items[1].v.t = "flagged_value" /\ file.items[1].v.flags # 0) =>
            StartsWith(text,
                HeaderLine(DefaultHeader) \o <<"{", "\n", "\t">> \o file.items[1].k
                \o <<" ", "=", " ">>
                \o Join(DeclarationOrder(Members(combined), 1), <<"+">>) \o <<":">>))

\* C7: a MultilineString s is printed as three quotes, s, three quotes, and a
\* String s as one quote, s, one quote, so the two never print the same.
C7_MultilineKeptDistinct ==
    (Serialized /\ pc = "text" /\ Len(file.items) = 1) =>
        /\ (file.items[1].v.t = "str_multiline" =>
               text = OnePairText(file.items[1].k,
                                  <<"\"", "\"", "\"">> \o file.items[1].v.s
                                  \o <<"\"", "\"", "\"">>))
        /\ (file.items[1].v.t = "str" =>
               text = OnePairText(file.items[1].k,
                                  <<"\"">> \o file.items[1].v.s \o <<"\"">>))

\* C8: for every content s without a run of three quotes, the value text of
\* three quotes, s, three quotes parses, and the builder reduces it to
\* MultilineString(s), as the body of the document and as the value of a pair.
C8_MultilineParses ==
    (pc = "parsed" /\ origin.kind = "multiline") =>
        /\ parsed.t = "KV3File"
        /\ DataOf(parsed) =
               IF origin.nested
               THEN Dict(<<Item(<<"m">>, str_multiline(origin.content))>>)
               ELSE str_multiline(origin.content)

\* C9: a pair written with a quoted key "k" yields the same object as the
\* pair written with the bare key k: the key is the string without its quotes.
C9_QuotedKeyIsPlain ==
    (pc = "parsed" /\ origin.kind = "pair") =>
        /\ parsed.t = "KV3File"
        /\ DataOf(parsed).items[1].k = origin.key
        /\ parsed = KV3Builder_parse(
                        PairText(origin.header, origin.key, FALSE, origin.valtext))

\* C10: the text n1+n2+...+nk:v reduces to Flagged(value, flags), flags the
\* combination of all of n1..nk and value the reduction of v.
C10_AllFlagsKept ==
    (pc = "parsed" /\ origin.kind = "flags") =>
        /\ parsed.t = "KV3File"
        /\ DataOf(parsed) =
               flagged_value(Str(<<"p">>), ValueOfMembers(Members(origin.names), 1))

====
